---- MODULE Spec2Model ----
(***************************************************************************)
(* Depth encoding and cross-fade of meshFromKinect (share/                 *)
(* meshFromKinect-old.js): updateCanvasData, tweenCanvasData and the       *)
(* animation-frame callbacks tweenCanvasData schedules for itself.         *)
(*                                                                         *)
(* JavaScript numbers are IEEE-754 doubles.  The channel values the code   *)
(* computes are followed exactly: a number is a natural multiple of a      *)
(* power of two, kept as a little-endian sequence of NumLimbs limbs of     *)
(* LimbBits bits, and every division, subtraction, product and sum is      *)
(* rounded to 53 significant bits, ties to even, as the hardware does.     *)
(***************************************************************************)
EXTENDS Integers, Sequences, FiniteSets

\* ------------------------------------------------------------------------
\* Bounds of the model
\* ------------------------------------------------------------------------

\* pixels of the canvas (640*480 in the source, scaled down)
BufPixels == 2

\* animation-frame callbacks that may be outstanding at once
MaxPending == 2

\* largest config.polycount tried
MaxPoly == 2

\* failed _createMesh polls that are counted
MaxPolled == 2

\* ------------------------------------------------------------------------
\* IEEE-754 double arithmetic on non-negative numbers
\* ------------------------------------------------------------------------

LimbBits == 10
LimbBase == 1024
NumLimbs == 10
MantissaBits == 53

\* a weight (fadeCnt/steps, 1 - fadeCnt/steps) is a multiple of 2^-FadeBits
FadeBits == 70
\* a channel value (weighted or not) is a multiple of 2^-ChanBits
ChanBits == 80
\* an encoded channel, as map returns it, is a multiple of 2^-MapBits
MapBits == 10

Limbs == 1..NumLimbs

RECURSIVE Pow2(_)
Pow2(n) == IF n = 0 THEN 1 ELSE 2 * Pow2(n - 1)

\* the number v * 2^n, for 0 <= v < 2^30 and n a multiple of LimbBits
BigOfSmall(v, n) ==
    LET first == (n \div LimbBits) + 1
    IN  [i \in Limbs |->
            IF i = first THEN v % LimbBase
            ELSE IF i = first + 1 THEN (v \div LimbBase) % LimbBase
            ELSE IF i = first + 2 THEN v \div (LimbBase * LimbBase)
            ELSE 0]

\* 2^n
BigPow2(n) ==
    [i \in Limbs |-> IF i = (n \div LimbBits) + 1 THEN Pow2(n % LimbBits) ELSE 0]

RECURSIVE AddCarry(_, _, _, _)
AddCarry(X, Y, i, c) ==
    IF i > NumLimbs THEN << >>
    ELSE LET t == X[i] + Y[i] + c
         IN  <<t % LimbBase>> \o AddCarry(X, Y, i + 1, t \div LimbBase)

BigAdd(X, Y) == AddCarry(X, Y, 1, 0)

RECURSIVE SubBorrow(_, _, _, _)
SubBorrow(X, Y, i, b) ==
    IF i > NumLimbs THEN << >>
    ELSE LET t == X[i] - Y[i] - b
         IN  IF t < 0 THEN <<t + LimbBase>> \o SubBorrow(X, Y, i + 1, 1)
             ELSE <<t>> \o SubBorrow(X, Y, i + 1, 0)

\* X - Y for X >= Y
BigSub(X, Y) == SubBorrow(X, Y, 1, 0)

RECURSIVE MulCarry(_, _, _, _)
MulCarry(X, m, i, c) ==
    IF i > NumLimbs THEN << >>
    ELSE LET t == (X[i] * m) + c
         IN  <<t % LimbBase>> \o MulCarry(X, m, i + 1, t \div LimbBase)

\* X * m for a small natural m (m < 2^20)
BigMul(X, m) == MulCarry(X, m, 1, 0)

RECURSIVE DivStep(_, _, _, _)
DivStep(X, d, i, r) ==
    IF i = 0 THEN [q |-> << >>, r |-> r]
    ELSE LET cur  == (r * LimbBase) + X[i]
             rest == DivStep(X, d, i - 1, cur % d)
         IN  [q |-> rest.q \o <<cur \div d>>, r |-> rest.r]

\* quotient and remainder of X by a small natural d
BigDivRem(X, d) == DivStep(X, d, NumLimbs, 0)

TopLimb(X) ==
    IF \A i \in Limbs : X[i] = 0 THEN 0
    ELSE CHOOSE t \in Limbs : X[t] # 0 /\ \A u \in (t + 1)..NumLimbs : X[u] = 0

RECURSIVE SmallBitLen(_)
SmallBitLen(v) == IF v = 0 THEN 0 ELSE 1 + SmallBitLen(v \div 2)

BitLen(X) ==
    LET t == TopLimb(X)
    IN  IF t = 0 THEN 0 ELSE ((t - 1) * LimbBits) + SmallBitLen(X[t])

Bit(X, n) == (X[(n \div LimbBits) + 1] \div Pow2(n % LimbBits)) % 2

\* the n low bits of X are all zero
LowZero(X, n) ==
    LET a == n \div LimbBits
        b == n % LimbBits
    IN  /\ \A i \in 1..a : X[i] = 0
        /\ (b = 0 \/ X[a + 1] % Pow2(b) = 0)

\* X with its n low bits cleared
ClearLow(X, n) ==
    LET a == n \div LimbBits
        b == n % LimbBits
    IN  [i \in Limbs |->
            IF i <= a THEN 0
            ELSE IF i = a + 1 THEN X[i] - (X[i] % Pow2(b))
            ELSE X[i]]

\* Round to nearest, ties to even, to MantissaBits significant bits.
\* sticky: the exact value is above X by less than one unit of X's grid.
RoundToNearest(X, sticky) ==
    LET s == BitLen(X) - MantissaBits
    IN  IF s <= 0 THEN X
        ELSE LET half == Bit(X, s - 1) = 1
                 rest == sticky \/ ~LowZero(X, s - 1)
                 odd  == Bit(X, s) = 1
                 T    == ClearLow(X, s)
             IN  IF half /\ (rest \/ odd) THEN BigAdd(T, BigPow2(s)) ELSE T

\* a / b for small naturals, as a multiple of 2^-FadeBits
FloatDiv(a, b) ==
    LET qr == BigDivRem(BigOfSmall(a, FadeBits), b)
    IN  RoundToNearest(qr.q, qr.r # 0)

\* 1 - w for a weight w in [0, 1], as a multiple of 2^-FadeBits
OneMinus(w) == RoundToNearest(BigSub(BigPow2(FadeBits), w), FALSE)

\* c * w for a channel c (a multiple of 2^-MapBits, given as c * 2^MapBits)
\* and a weight w, as a multiple of 2^-ChanBits
FloatMul(c, w) == RoundToNearest(BigMul(w, c), FALSE)

\* x + y for multiples of 2^-ChanBits
FloatAdd(x, y) == RoundToNearest(BigAdd(x, y), FALSE)

\* the channel c (given as c * 2^MapBits) as a multiple of 2^-ChanBits
ChanOfMap(c) == BigOfSmall(c, ChanBits - MapBits)

\* Storing a number into a Uint8ClampedArray (ToUint8Clamp): clamp to
\* [0, 255], round to the nearest integer, ties to even.
ToUint8Clamp(x) ==
    LET top   == (ChanBits \div LimbBits) + 1
        f     == x[top] + (LimbBase * x[top + 1])
        h     == x[top - 1]
        lower == \E i \in 1..(top - 2) : x[i] # 0
        above == h > LimbBase \div 2 \/ (h = LimbBase \div 2 /\ lower)
        below == h < LimbBase \div 2
    IN  IF f >= 255 THEN 255
        ELSE IF above THEN f + 1
        ELSE IF below THEN f
        ELSE IF f % 2 = 0 THEN f ELSE f + 1


\* ------------------------------------------------------------------------
\* Values and inputs
\* ------------------------------------------------------------------------

\* prevCanvasData / newCanvasData / depth: null, undefined or a Uint8Array
Null      == [tag |-> "null", bytes |-> << >>]
Undefined == [tag |-> "undefined", bytes |-> << >>]
Frame(b)  == [tag |-> "frame", bytes |-> b]
IsFrame(v) == v.tag = "frame"

\* The depth buffers callers pass, as (low byte, high byte) samples:
\*   totals 0 and 2048; totals 512 and 1025; one sample, total 1024;
\*   an odd-length buffer: total 1023, then a lone low byte 7.
FrameBytes == { <<0, 0, 0, 8>>, <<0, 2, 1, 4>>, <<0, 4>>, <<255, 3, 7>> }
Frames == { Frame(b) : b \in FrameBytes }

\* what a caller may pass as depth: a buffer, or nothing
Depths == Frames \cup {Undefined}

DataLen == 4 * BufPixels

\* ------------------------------------------------------------------------
\* Depth encoding
\* ------------------------------------------------------------------------

\* BB.MathUtils.map: the linear remap of value from [inMin, inMax] to
\* [outMin, outMax], not clamped.  The result is given times 2^MapBits,
\* which is exact for the range 1024 the callers use.
map(value, inMin, inMax, outMin, outMax) ==
    (outMin * Pow2(MapBits))
        + (((value - inMin) * (outMax - outMin) * Pow2(MapBits)) \div (inMax - inMin))

\* depth[i] under << and |: an index past the end reads undefined, taken as 0
ByteAt(bytes, i) == IF i < Len(bytes) THEN bytes[i + 1] ELSE 0

\* depth[i+1] << 8 | depth[i]
Total(bytes, i) == (ByteAt(bytes, i + 1) * 256) + ByteAt(bytes, i)

\* iterations of  for (i = 0; i < length; i += 2)
NumIter(length) == (length + 1) \div 2

\* val1, val2 of updateCanvasData, times 2^MapBits
encodeUpdate(total) ==
    IF total > 1024
    THEN <<0, map(2048 - total, 0, 1024, 255, 0)>>
    ELSE <<map(total, 0, 1024, 255, 0), 255 * Pow2(MapBits)>>

\* prev1, prev2 of tweenCanvasData, times 2^MapBits
encodePrev(prevTotal) ==
    IF prevTotal > 1024
    THEN <<0, map(2048 - prevTotal, 0, 1024, 255, 0)>>
    ELSE <<map(prevTotal, 0, 1024, 255, 0), 255 * Pow2(MapBits)>>

\* the threshold test with >= for >
encodeNewGe(newTotal) ==
    IF newTotal >= 1024
    THEN <<0, map(2048 - newTotal, 0, 1024, 255, 0)>>
    ELSE <<map(newTotal, 0, 1024, 255, 0), 255 * Pow2(MapBits)>>

\* new1, new2 of tweenCanvasData, times 2^MapBits
encodeNew(newTotal) ==
    IF newTotal > 1024
    THEN <<0, map(2048 - newTotal, 0, 1024, 255, 0)>>
    ELSE <<map(newTotal, 0, 1024, 255, 0), 255 * Pow2(MapBits)>>

\* the four bytes updateCanvasData stores for the sample at index i
UpdatePixel(bytes, i) ==
    LET v == encodeUpdate(Total(bytes, i))
        b1 == ToUint8Clamp(ChanOfMap(v[1]))
        b2 == ToUint8Clamp(ChanOfMap(v[2]))
    IN  <<b1, b2, b2, 255>>

\* the loop of updateCanvasData; stores past the end of data are dropped
UpdatePixels(bytes, old) ==
    LET rows == [px \in 0..(BufPixels - 1) |-> UpdatePixel(bytes, 2 * px)]
    IN  [j \in 1..DataLen |->
            IF (j - 1) \div 4 < NumIter(Len(bytes))
            THEN rows[(j - 1) \div 4][((j - 1) % 4) + 1]
            ELSE old[j]]

\* ------------------------------------------------------------------------
\* Cross-fade
\* ------------------------------------------------------------------------

steps == 25

\* newFade with the divisor one too large
newFadeOff(cnt) == FloatDiv(cnt, steps + 1)

\* newFade taken after the increment of fadeCnt
newFadeAfter(cnt) == FloatDiv(cnt + 1, steps)

\* this.fadeCnt / steps
newFade(cnt) == FloatDiv(cnt, steps)

\* prevFade that never fades the previous frame out
prevFadeKept(cnt) == OneMinus(FloatDiv(0, steps))

\* 1 - this.fadeCnt / steps
prevFade(cnt) == OneMinus(FloatDiv(cnt, steps))

\* (prev*prevFade) + (new*newFade)
blend(p, n, pf, nf) == FloatAdd(FloatMul(p, pf), FloatMul(n, nf))

\* if (this.newCanvasData === null) this.newCanvasData = depth
FirstFrame(new, depth) == IF new = Null THEN depth ELSE new

\* the test of fadeCnt left out
PromotesAlways(cnt) == TRUE

\* if (this.fadeCnt === 0) { prevCanvasData = newCanvasData; newCanvasData = depth }
Promotes(cnt) == cnt = 0

\* the two assignments in the wrong order
PromoteSwapped(prev, new, cnt, depth) ==
    IF Promotes(cnt) THEN [prev |-> depth, new |-> depth]
    ELSE [prev |-> prev, new |-> new]

\* the promotion done on every call
PromoteAnyTime(prev, new, cnt, depth) == [prev |-> new, new |-> depth]

Promote(prev, new, cnt, depth) ==
    IF Promotes(cnt) THEN [prev |-> new, new |-> depth]
    ELSE [prev |-> prev, new |-> new]

\* The loop throws a TypeError before its first store: reading .length of
\* null or undefined, or indexing null or undefined in its first iteration.
TweenThrows(prev, new) ==
    \/ ~IsFrame(prev)
    \/ (Len(prev.bytes) > 0 /\ ~IsFrame(new))

\* data[j] = (prev*prevFade) + (new*newFade): the byte the store leaves
blendStore(p, n, cnt) == ToUint8Clamp(blend(p, n, prevFade(cnt), newFade(cnt)))

\* The totals and encoded channels that occur for the buffers of Frames,
\* and blendStore for all of them, evaluated once.
SampleTotals ==
    { Total(b, 2 * px) : b \in FrameBytes \cup {<< >>}, px \in 0..BufPixels }
ChanVals ==
    UNION { {encodePrev(t)[1], encodePrev(t)[2], encodeNew(t)[1], encodeNew(t)[2]} :
            t \in SampleTotals }
BlendTable ==
    [cnt \in 0..steps |-> [p \in ChanVals |-> [n \in ChanVals |-> blendStore(p, n, cnt)]]]

blendByte(p, n, cnt) ==
    IF cnt \in 0..steps /\ p \in ChanVals /\ n \in ChanVals
    THEN BlendTable[cnt][p][n]
    ELSE blendStore(p, n, cnt)

\* the four bytes tweenCanvasData stores for the samples at index i
TweenPixel(prevBytes, newBytes, i, cnt) ==
    LET p == encodePrev(Total(prevBytes, i))
        n == encodeNew(Total(newBytes, i))
        b1 == blendByte(p[1], n[1], cnt)
        b2 == blendByte(p[2], n[2], cnt)
    IN  <<b1, b2, b2, 255>>

\* the loop of tweenCanvasData, over the samples of prevCanvasData
TweenPixels(prevBytes, newBytes, cnt, old) ==
    LET rows == [px \in 0..(BufPixels - 1) |->
                    TweenPixel(prevBytes, newBytes, 2 * px, cnt)]
    IN  [j \in 1..DataLen |->
            IF (j - 1) \div 4 < NumIter(Len(prevBytes))
            THEN rows[(j - 1) \div 4][((j - 1) % 4) + 1]
            ELSE old[j]]

\* the wrap one step late
NextFadeCntLate(cnt) == IF cnt + 1 > steps + 1 THEN 0 ELSE cnt + 1

\* this.fadeCnt++; if (this.fadeCnt > steps) this.fadeCnt = 0
NextFadeCnt(cnt) == IF cnt + 1 > steps THEN 0 ELSE cnt + 1

\* no callback requested
ReschedulesNever(cnt) == FALSE

\* else requestAnimationFrame(...)
Reschedules(cnt) == ~(cnt + 1 > steps)


\* ------------------------------------------------------------------------
\* Construction
\* ------------------------------------------------------------------------

\* this.newCanvasData = (typeof config.initDepth !== "undefined")
\*                          ? config.initDepth : null
InitNewNull(initDepth) == Null

InitNew(initDepth) == IF initDepth # Undefined THEN initDepth ELSE Null

\* if (typeof config.initDepth !== "undefined") this.tweenCanvasData(...)
InitTweens(initDepth) == initDepth # Undefined

\* The value of a property the config object does not have
Absent == "absent"

\* The config of the example "with all required params" of MeshFromDepth.js
DocumentedConfig ==
    [scene |-> "Scene", depthCanvas |-> "canvas", depthData |-> Absent,
     vertexShaderID |-> "v-shader", fragmentShaderID |-> "f-shader",
     vertexShader |-> Absent, fragmentShader |-> Absent, uniforms |-> Absent]

DepthConfigs ==
    { DocumentedConfig,
      [DocumentedConfig EXCEPT !.depthCanvas = Absent, !.depthData = "canvas"],
      [DocumentedConfig EXCEPT !.depthData = "canvas"],
      [DocumentedConfig EXCEPT !.depthData = "canvas", !.scene = "Object3D"],
      [DocumentedConfig EXCEPT !.depthData = "canvas", !.vertexShaderID = Absent],
      [DocumentedConfig EXCEPT !.depthData = "canvas", !.fragmentShaderID = Absent],
      [DocumentedConfig EXCEPT !.depthData = "canvas", !.vertexShaderID = Absent,
                               !.vertexShader = "point-vertex.glsl"],
      [DocumentedConfig EXCEPT !.depthData = "canvas", !.uniforms = "object"] }

NoError == ""

\* The Error the constructor MeshFromDepth(config) throws, NoError if it
\* reaches this._createMesh()
MeshFromDepthError(config) ==
    IF config.scene # "Scene"
    THEN "MeshFromDepth: expecting a threejs scene object"
    ELSE IF ~(config.depthData # "undefined" /\ config.depthData = "canvas")
    THEN "MeshFromDepth: depthData: expecting instanceof HTMLCanvasElement "
    ELSE IF config.vertexShader = Absent /\ config.vertexShaderID = Absent
    THEN "MeshFromDepth: missing vertext shader, expecting either vertexShaderID or vertexShader"
    ELSE IF config.fragmentShader = Absent /\ config.fragmentShaderID = Absent
    THEN "MeshFromDepth: missing vertext shader, expecting either fragmentShaderID or fragmentShader"
    ELSE IF config.uniforms # Absent /\ config.uniforms # "array"
    THEN "MeshFromDepth: uniforms should be an Array of objects: {name:\"string\",type:\"string\",value:in_type}"
    ELSE NoError

NotBuilt == [config |-> DocumentedConfig, error |-> "not constructed"]


\* ------------------------------------------------------------------------
\* Mesh creation
\* ------------------------------------------------------------------------

\* config.polycount not given
Unset == -1

\* this.polycount = (typeof config.polycount !== 'undefined')
\*                      ? config.polycount : 10
polycountOf(config) == IF config.polycount # Unset THEN config.polycount ELSE 10

\* Math.floor( widthSegments ) || 1
gridOf(polycount) == IF polycount = 0 THEN 1 ELSE polycount

SetMax(S) == CHOOSE m \in S : \A o \in S : o <= m

\* offset2 in the iteration (ix, iy) of the second loop of _geometry: it
\* starts at 0 and grows by 12 per iteration
offset2At(ix, iy, gridX) == 12 * ((iy * gridX) + ix)

\* the offsets colors[...] is written at, lines 234-248
colorOffsets(gridX, gridY) ==
    { offset2At(ix, iy, gridX) + t :
        ix \in 0..(gridX - 1), iy \in 0..(gridY - 1), t \in 0..11 }

\* the values a, b, c, d written to indices, lines 215-226
indexValues(gridX, gridY) ==
    LET gridX1 == gridX + 1
    IN  UNION { { ix + (gridX1 * iy),
                  ix + (gridX1 * (iy + 1)),
                  (ix + 1) + (gridX1 * (iy + 1)),
                  (ix + 1) + (gridX1 * iy) } :
                ix \in 0..(gridX - 1), iy \in 0..(gridY - 1) }

\* _geometry: the length of colors, the largest offset of colors written,
\* the number of vertices, the largest index written
geometry(polycount) ==
    LET gridX  == gridOf(polycount)
        gridY  == gridOf(polycount)
        gridX1 == gridX + 1
        gridY1 == gridY + 1
    IN  [colors      |-> gridX1 * gridY1 * 3,
         colorMax    |-> SetMax(colorOffsets(gridX, gridY)),
         vertexCount |-> (gridX1 * gridY1 * 3) \div 3,
         indexMax    |-> SetMax(indexValues(gridX, gridY))]

NoGeometry == [colors |-> 0, colorMax |-> -1, vertexCount |-> 0, indexMax |-> -1]

\* The configs of the two classes: each shader by element id or by file
\* path, config.type, config.polycount
MeshConfigs ==
    [class : {"meshFromKinect", "MeshFromDepth"},
     vertex : {"id", "file"}, fragment : {"id", "file"},
     type : {Absent, "point", "mesh", "cube"},
     polycount : {Unset} \cup 0..MaxPoly]

DefaultMeshConfig ==
    [class |-> "meshFromKinect", vertex |-> "id", fragment |-> "id",
     type |-> Absent, polycount |-> Unset]

ShadersReadyEither(m) == m.fragmentShader \/ m.vertexShader

\* typeof this.fragmentShader !== "undefined" &&
\* typeof this.vertexShader !== "undefined"
ShadersReady(m) == m.fragmentShader /\ m.vertexShader

\* _createMesh on the object m
createMesh(m) ==
    IF ShadersReady(m)
    THEN IF m.type \notin {Absent, "point", "mesh"}
         THEN [m EXCEPT !.threw = TRUE]
         ELSE [m EXCEPT !.geometry = geometry(m.polycount),
                        !.added = @ + 1,
                        !.loaded = TRUE,
                        !.textureNeedsUpdate = IF m.class = "MeshFromDepth" THEN TRUE ELSE @]
    ELSE [m EXCEPT !.timers = @ + 1,
                   !.polled = IF @ < MaxPolled THEN @ + 1 ELSE @]

\* the object when its constructor returns or throws: shaders given by id
\* are read at once, shaders given by path are requested (_loadFile), then
\* _createMesh is called
MeshAfterCtor(config) ==
    createMesh(
        [class |-> config.class,
         loaded |-> FALSE,
         vertexShader |-> config.vertex = "id",
         fragmentShader |-> config.fragment = "id",
         loading |-> {t \in {"vertex-shader"} : config.vertex = "file"}
                     \cup {t \in {"fragment-shader"} : config.fragment = "file"},
         type |-> config.type,
         polycount |-> polycountOf(config),
         timers |-> 0,
         polled |-> 0,
         added |-> 0,
         geometry |-> NoGeometry,
         textureNeedsUpdate |-> FALSE,
         threw |-> FALSE])

BuiltMesh == MeshAfterCtor(DefaultMeshConfig)


\* ------------------------------------------------------------------------
\* State
\* ------------------------------------------------------------------------

VARIABLES
    prevCanvasData,   \* this.prevCanvasData
    newCanvasData,    \* this.newCanvasData
    fadeCnt,          \* this.fadeCnt
    data,             \* this.imageData.data, a Uint8ClampedArray
    needsUpdate,      \* this.texture.needsUpdate
    pending,          \* callbacks given to requestAnimationFrame, not yet run
    last,             \* the last call: who made it, its argument, fadeCnt
                      \* when it began, whether it ended in an exception
    writer,           \* which method stored into data last
    promotions,       \* how often lines 428-429 have run (counted up to 2)
    sinceTrans,       \* blend steps since a submission promoted a frame, if
                      \* only callbacks ran since; -1 otherwise
    depthMesh,        \* the last new MeshFromDepth(config): its config and
                      \* the Error it threw
    mesh              \* the object's shaders, its pending shader requests
                      \* and _createMesh timers, loaded, the meshes added

vars == <<prevCanvasData, newCanvasData, fadeCnt, data, needsUpdate, pending,
          last, writer, promotions, sinceTrans, depthMesh, mesh>>

Init ==
    /\ prevCanvasData = Null
    /\ newCanvasData = Null
    /\ fadeCnt = 0
    /\ data = [j \in 1..DataLen |-> 0]
    /\ needsUpdate = FALSE
    /\ pending = 0
    /\ last = [op |-> "init", depth |-> Undefined, k |-> 0, threw |-> FALSE]
    /\ writer = "none"
    /\ promotions = 0
    /\ sinceTrans = -1
    /\ depthMesh = NotBuilt
    /\ mesh = BuiltMesh

\* ------------------------------------------------------------------------
\* Operations
\* ------------------------------------------------------------------------

Min(a, b) == IF a < b THEN a ELSE b

\* the loop over a buffer of these bytes runs at least once, so the call
\* stores into data
Stores(bytes) == NumIter(Len(bytes)) > 0

\* The iterations of the blend loop that have stored their pixel when the
\* call throws: none. Reading prevCanvasData.length of a missing
\* prevCanvasData throws before the first iteration, reading
\* newCanvasData[i + 1] of a missing newCanvasData throws in the first
\* iteration, above its stores.
StoredBeforeThrowOne(prev, new) ==
    IF IsFrame(prev) THEN Min(1, NumIter(Len(prev.bytes))) ELSE 0

StoredBeforeThrow(prev, new) == 0

BytesOf(v) == IF IsFrame(v) THEN v.bytes ELSE << >>

\* data after a blend loop that threw
ThrownPixels(prev, new, cnt, old) ==
    LET rows == [px \in 0..(BufPixels - 1) |->
                    TweenPixel(BytesOf(prev), BytesOf(new), 2 * px, cnt)]
    IN  [j \in 1..DataLen |->
            IF (j - 1) \div 4 < StoredBeforeThrow(prev, new)
            THEN rows[(j - 1) \div 4][((j - 1) % 4) + 1]
            ELSE old[j]]

\* tweenCanvasData(depth), called by op with pend callbacks outstanding
tweenCanvasData(depth, op, pend) ==
    LET new1  == FirstFrame(newCanvasData, depth)
        pr    == Promote(prevCanvasData, new1, fadeCnt, depth)
        threw == TweenThrows(pr.prev, pr.new)
    IN  /\ prevCanvasData' = pr.prev
        /\ newCanvasData' = pr.new
        /\ IF threw
           THEN /\ data' = ThrownPixels(pr.prev, pr.new, fadeCnt, data)
                /\ UNCHANGED <<needsUpdate, fadeCnt, writer>>
                /\ pending' = pend
           ELSE /\ data' = TweenPixels(pr.prev.bytes, pr.new.bytes, fadeCnt, data)
                /\ needsUpdate' = TRUE
                /\ fadeCnt' = NextFadeCnt(fadeCnt)
                /\ pending' = IF Reschedules(fadeCnt) THEN pend + 1 ELSE pend
                /\ writer' = IF Stores(pr.prev.bytes) THEN "tween" ELSE writer
        /\ last' = [op |-> op, depth |-> depth, k |-> fadeCnt, threw |-> threw]
        /\ promotions' = IF Promotes(fadeCnt) /\ promotions < 2
                         THEN promotions + 1 ELSE promotions
        /\ sinceTrans' =
              IF op = "submit" /\ Promotes(fadeCnt) /\ ~threw THEN 1
              ELSE IF op = "tick" /\ sinceTrans >= 1 /\ ~Promotes(fadeCnt) /\ ~threw
                   THEN sinceTrans + 1
              ELSE -1
        /\ UNCHANGED <<depthMesh, mesh>>

\* a caller submits a depth buffer: tweenCanvasData(depth)
Submit(d) ==
    /\ pending < MaxPending
    /\ tweenCanvasData(d, "submit", pending)

\* a caller calls tweenCanvasData() without a buffer
CallNoFrame ==
    /\ pending < MaxPending
    /\ tweenCanvasData(Undefined, "call", pending)

\* the browser runs one callback: function(){ self.tweenCanvasData(); }
Tick ==
    /\ pending > 0
    /\ tweenCanvasData(Undefined, "tick", pending - 1)

updateCanvasDataRestarts(depth) ==
    LET threw == ~IsFrame(depth)
    IN  /\ IF threw
           THEN UNCHANGED <<data, needsUpdate, writer>>
           ELSE /\ data' = UpdatePixels(depth.bytes, data)
                /\ needsUpdate' = TRUE
                /\ writer' = IF Stores(depth.bytes) THEN "update" ELSE writer
        /\ last' = [op |-> "update", depth |-> depth, k |-> fadeCnt, threw |-> threw]
        /\ sinceTrans' = -1
        /\ fadeCnt' = 0
        /\ UNCHANGED <<prevCanvasData, newCanvasData, pending, promotions>>
        /\ UNCHANGED <<depthMesh, mesh>>

\* updateCanvasData(depth); reading depth.length of undefined throws
updateCanvasData(depth) ==
    LET threw == ~IsFrame(depth)
    IN  /\ IF threw
           THEN UNCHANGED <<data, needsUpdate, writer>>
           ELSE /\ data' = UpdatePixels(depth.bytes, data)
                /\ needsUpdate' = TRUE
                /\ writer' = IF Stores(depth.bytes) THEN "update" ELSE writer
        /\ last' = [op |-> "update", depth |-> depth, k |-> fadeCnt, threw |-> threw]
        /\ sinceTrans' = -1
        /\ UNCHANGED <<prevCanvasData, newCanvasData, fadeCnt, pending, promotions>>
        /\ UNCHANGED <<depthMesh, mesh>>

Update(d) == updateCanvasData(d)

Next ==
    \/ \E d \in Frames : Submit(d)
    \/ Tick
    \/ CallNoFrame
    \/ \E d \in Depths : Update(d)

Spec == Init /\ [][Next]_vars

\* The same operations over two buffers of different lengths, with the
\* browser running every callback it was given sooner or later.
FairFrames == { Frame(<<0, 0, 0, 8>>), Frame(<<0, 4>>) }

FairNext ==
    \/ \E d \in FairFrames : Submit(d)
    \/ Tick
    \/ CallNoFrame
    \/ \E d \in {Frame(<<0, 4>>), Undefined} : Update(d)

FairSpec == Init /\ [][FairNext]_vars /\ WF_vars(Tick)

\* Construction of both classes, then the operations over an empty buffer
\* and a buffer of one sample.
CtorFrames == { Frame(<< >>), Frame(<<0, 4>>) }

CtorDepths == CtorFrames \cup {Undefined}

\* The constructor meshFromKinect(config) at line 105, for each
\* config.initDepth; last.depth holds config.initDepth
CtorInit ==
    \E d \in CtorDepths :
        /\ prevCanvasData = Null
        /\ newCanvasData = InitNew(d)
        /\ fadeCnt = 0
        /\ data = [j \in 1..DataLen |-> 0]
        /\ needsUpdate = FALSE
        /\ pending = 0
        /\ last = [op |-> "init", depth |-> d, k |-> 0, threw |-> FALSE]
        /\ writer = "none"
        /\ promotions = 0
        /\ sinceTrans = -1
        /\ depthMesh = NotBuilt
        /\ mesh = BuiltMesh

\* the constructor still has line 105 to run
InCtor == last.op = "init" /\ InitTweens(last.depth)

\* line 105: this.tweenCanvasData(this.newCanvasData)
CtorTween ==
    /\ InCtor
    /\ tweenCanvasData(newCanvasData, "ctor", pending)

\* new MeshFromDepth(config)
ConstructDepth(config) ==
    /\ depthMesh' = [config |-> config, error |-> MeshFromDepthError(config)]
    /\ UNCHANGED <<prevCanvasData, newCanvasData, fadeCnt, data, needsUpdate,
                   pending, last, writer, promotions, sinceTrans, mesh>>

CtorNext ==
    \/ CtorTween
    \/ \E d \in CtorFrames : ~InCtor /\ Submit(d)
    \/ ~InCtor /\ Tick
    \/ ~InCtor /\ CallNoFrame
    \/ \E config \in DepthConfigs : ConstructDepth(config)

CtorSpec == CtorInit /\ [][CtorNext]_vars

\* Construction of one object from each config, then the shader files
\* arriving and the _createMesh timers firing in any order.
MeshInit ==
    /\ prevCanvasData = Null
    /\ newCanvasData = Null
    /\ fadeCnt = 0
    /\ data = [j \in 1..DataLen |-> 0]
    /\ needsUpdate = FALSE
    /\ pending = 0
    /\ last = [op |-> "init", depth |-> Undefined, k |-> 0, threw |-> FALSE]
    /\ writer = "none"
    /\ promotions = 0
    /\ sinceTrans = -1
    /\ depthMesh = NotBuilt
    /\ mesh \in { MeshAfterCtor(config) : config \in MeshConfigs }

\* the "load" event of a request made by _loadFile(type, path)
LoadDone(type) ==
    /\ type \in mesh.loading
    /\ mesh' = [mesh EXCEPT !.loading = @ \ {type},
                            !.fragmentShader = IF type = "fragment-shader" THEN TRUE ELSE @,
                            !.vertexShader = IF type = "vertex-shader" THEN TRUE ELSE @]
    /\ UNCHANGED <<prevCanvasData, newCanvasData, fadeCnt, data, needsUpdate,
                   pending, last, writer, promotions, sinceTrans, depthMesh>>

\* a timer set by _createMesh fires: function(){ self._createMesh(); }
Poll ==
    /\ mesh.timers > 0
    /\ mesh' = createMesh([mesh EXCEPT !.timers = @ - 1])
    /\ UNCHANGED <<prevCanvasData, newCanvasData, fadeCnt, data, needsUpdate,
                   pending, last, writer, promotions, sinceTrans, depthMesh>>

\* the constructor returned an object: it throws only when it finds both
\* shaders by id and _createMesh rejects config.type before any poll
Constructed == ~(mesh.threw /\ mesh.polled = 0)

\* a caller calls MeshFromDepth.prototype.update()
CallUpdate ==
    /\ mesh.class = "MeshFromDepth"
    /\ Constructed
    /\ mesh' = [mesh EXCEPT !.textureNeedsUpdate = TRUE]
    /\ UNCHANGED <<prevCanvasData, newCanvasData, fadeCnt, data, needsUpdate,
                   pending, last, writer, promotions, sinceTrans, depthMesh>>

MeshNext ==
    \/ \E type \in {"vertex-shader", "fragment-shader"} : LoadDone(type)
    \/ Poll
    \/ CallUpdate

MeshSpec == MeshInit /\ [][MeshNext]_vars

TypeOK ==
    /\ prevCanvasData \in Frames \cup CtorFrames \cup {Null, Undefined}
    /\ newCanvasData \in Frames \cup CtorFrames \cup {Null, Undefined}
    /\ depthMesh \in [config : DepthConfigs, error : STRING]
    /\ fadeCnt \in 0..(steps + 1)
    /\ data \in [1..DataLen -> 0..255]
    /\ needsUpdate \in BOOLEAN
    /\ pending \in 0..MaxPending
    /\ writer \in {"none", "update", "tween"}
    /\ promotions \in 0..2
    /\ sinceTrans \in -1..(steps + 1)


\* ------------------------------------------------------------------------
\* Properties
\* ------------------------------------------------------------------------

TweenOps == {"submit", "call", "tick"}

\* the last call was a tweenCanvasData that ran its blend step to the end
Blended == last.op \in TweenOps /\ ~last.threw

\* the four bytes of pixel px of data
PixelOf(px) == <<data[(4 * px) + 1], data[(4 * px) + 2], data[(4 * px) + 3], data[(4 * px) + 4]>>

\* data is what updateCanvasData(bytes) would leave in it
ShowsFrame(bytes) == data = UpdatePixels(bytes, data)

\* C1 as claimed: a frame submitted while a fade is in flight becomes
\* newCanvasData at once.
C1_MidFadeReplacesTarget ==
    [][(last'.op = "submit" /\ fadeCnt # 0) => newCanvasData' = last'.depth]_vars

\* C1, amended: a frame submitted while a fade is in flight is dropped,
\* newCanvasData is after the call what it was before it.
C1_MidFadeKeepsTarget ==
    [][(last'.op = "submit" /\ fadeCnt # 0) => newCanvasData' = newCanvasData]_vars

C1_Witness ==
    /\ last.op = "submit" /\ last.k # 0 /\ ~last.threw
    /\ IsFrame(newCanvasData) /\ last.depth # newCanvasData

\* C2 as claimed: steps (25) blend steps after a submission promoted a
\* frame, with only callbacks in between, data is the encoding of
\* newCanvasData.
C2_DoneAfterSteps ==
    sinceTrans = steps => ShowsFrame(newCanvasData.bytes)

\* C2, amended: steps + 1 (26) blend steps after a submission promoted a
\* frame, with only callbacks in between, fadeCnt is back at 0 and every
\* pixel both frames cover holds the encoding of newCanvasData's sample.
C2_DoneAfterStepsPlusOne ==
    sinceTrans = steps + 1 =>
        /\ fadeCnt = 0
        /\ \A px \in 0..(BufPixels - 1) :
              px < Min(NumIter(Len(prevCanvasData.bytes)), NumIter(Len(newCanvasData.bytes)))
                  => PixelOf(px) = UpdatePixel(newCanvasData.bytes, 2 * px)

C2_Witness ==
    /\ sinceTrans = steps + 1
    /\ prevCanvasData = Frame(<<0, 0, 0, 8>>)
    /\ newCanvasData = Frame(<<0, 2, 1, 4>>)

\* C3: between calls fadeCnt is an integer in [0, steps], whatever the
\* interleaving of submissions and callbacks.
C3_FadeCntInRange == fadeCnt \in 0..steps

C3_Witness == fadeCnt = steps /\ last.op = "submit" /\ pending > 1

\* C4 as claimed: a submission made while newCanvasData is a frame and
\* fadeCnt is 0 promotes newCanvasData to prevCanvasData and takes the
\* submitted frame; a call in any other state leaves prevCanvasData alone.
C4_PromotionOnlyThen ==
    [][/\ (last'.op = "submit" /\ IsFrame(newCanvasData) /\ fadeCnt = 0)
            => (prevCanvasData' = newCanvasData /\ newCanvasData' = last'.depth)
       /\ ~(IsFrame(newCanvasData) /\ fadeCnt = 0)
            => prevCanvasData' = prevCanvasData]_vars

\* C4, amended: the promotion as claimed; a call made with fadeCnt # 0
\* leaves prevCanvasData alone; a submission made while newCanvasData is
\* null sets both prevCanvasData and newCanvasData to the submitted frame.
C4_PromotionAtZero ==
    [][/\ (last'.op = "submit" /\ IsFrame(newCanvasData) /\ fadeCnt = 0)
            => (prevCanvasData' = newCanvasData /\ newCanvasData' = last'.depth)
       /\ fadeCnt # 0 => prevCanvasData' = prevCanvasData
       /\ (last'.op = "submit" /\ newCanvasData = Null)
            => (prevCanvasData' = last'.depth /\ newCanvasData' = last'.depth)]_vars

C4_Witness ==
    /\ last.op = "submit" /\ last.k = 0 /\ promotions = 2
    /\ IsFrame(prevCanvasData) /\ newCanvasData = last.depth
    /\ prevCanvasData # newCanvasData

\* the encoding as the specification states it, times 2^MapBits
StatedEncoding(total) ==
    IF total <= 1024
    THEN <<map(total, 0, 1024, 255, 0), 255 * Pow2(MapBits)>>
    ELSE <<0, map(2048 - total, 0, 1024, 255, 0)>>

\* 25600 times the exact value of prevChannel*(1 - k/steps) + newChannel*(k/steps)
ExactBlend(p, n, k) == (p * (steps - k)) + (n * k)

\* byte b is the exact blend, cut off at 255 and rounded to an integer
IsRounded(b, p, n, k) ==
    LET v == Min(ExactBlend(p, n, k), 255 * steps * Pow2(MapBits))
        d == (b * steps * Pow2(MapBits)) - v
    IN  b \in 0..255 /\ 2 * d <= steps * Pow2(MapBits) /\ 2 * d >= 0 - (steps * Pow2(MapBits))

\* C5: a blend step stores, for every pixel it visits and each of R, G, B,
\* prevChannel*(1 - k/steps) + newChannel*(k/steps) with k the fadeCnt the
\* call began with; at k = 0 that is the encoding of prevCanvasData, at
\* k = steps the encoding of newCanvasData.
C5_BlendIsLinear ==
    Blended =>
        \A px \in 0..(BufPixels - 1) :
            px < NumIter(Len(prevCanvasData.bytes)) =>
                LET p == StatedEncoding(Total(prevCanvasData.bytes, 2 * px))
                    n == StatedEncoding(Total(newCanvasData.bytes, 2 * px))
                    k == last.k
                IN  /\ IsRounded(PixelOf(px)[1], p[1], n[1], k)
                    /\ IsRounded(PixelOf(px)[2], p[2], n[2], k)
                    /\ PixelOf(px)[3] = PixelOf(px)[2]
                    /\ k = 0 => PixelOf(px)[1] = ToUint8Clamp(ChanOfMap(p[1]))
                             /\ PixelOf(px)[2] = ToUint8Clamp(ChanOfMap(p[2]))
                    /\ k = steps => PixelOf(px)[1] = ToUint8Clamp(ChanOfMap(n[1]))
                                 /\ PixelOf(px)[2] = ToUint8Clamp(ChanOfMap(n[2]))

C5_Witness ==
    /\ Blended /\ last.k = 12
    /\ prevCanvasData = Frame(<<0, 0, 0, 8>>)
    /\ newCanvasData = Frame(<<0, 2, 1, 4>>)

\* C6: updateCanvasData and both encodings of tweenCanvasData compute the
\* stated encoding: total <= 1024 gives (map(total,0,1024,255,0), 255),
\* total 0 gives (255, 255), total > 1024 gives (0, map(2048-total,0,1024,255,0)).
C6_EncodersAgree ==
    /\ \A px \in 0..(BufPixels - 1) :
          /\ IsFrame(prevCanvasData) =>
                LET t == Total(prevCanvasData.bytes, 2 * px)
                IN  /\ encodePrev(t) = StatedEncoding(t)
                    /\ t = 0 => encodePrev(t) = <<255 * 1024, 255 * 1024>>
          /\ IsFrame(newCanvasData) =>
                LET t == Total(newCanvasData.bytes, 2 * px)
                IN  /\ encodeNew(t) = StatedEncoding(t)
                    /\ t = 0 => encodeNew(t) = <<255 * 1024, 255 * 1024>>
          /\ (last.op = "update" /\ ~last.threw) =>
                LET t == Total(last.depth.bytes, 2 * px)
                    e == StatedEncoding(t)
                IN  /\ encodeUpdate(t) = e
                    /\ t = 0 => encodeUpdate(t) = <<255 * 1024, 255 * 1024>>
                    /\ px < NumIter(Len(last.depth.bytes)) =>
                          /\ PixelOf(px)[1] = ToUint8Clamp(ChanOfMap(e[1]))
                          /\ PixelOf(px)[2] = ToUint8Clamp(ChanOfMap(e[2]))

C6_Witness ==
    /\ last.op = "update" /\ last.depth = Frame(<<0, 2, 1, 4>>)
    /\ prevCanvasData = Frame(<<0, 0, 0, 8>>)
    /\ newCanvasData = Frame(<<0, 4>>)

\* C7 as claimed: after the first submission to a blender that had no
\* frame, and after every callback of that first cycle, data is what
\* updateCanvasData would store for the submitted frame.
C7_FirstCycleShowsFrame ==
    (promotions = 1 /\ sinceTrans >= 1) => ShowsFrame(newCanvasData.bytes)

\* C8 as claimed: with fadeCnt = 0, newCanvasData a frame and data last
\* stored by a blend step, data is the encoding of newCanvasData.
C8_IdleShowsCurrent ==
    (fadeCnt = 0 /\ IsFrame(newCanvasData) /\ writer = "tween" /\ last.op # "update")
        => ShowsFrame(newCanvasData.bytes)

\* C9: once fadeCnt is not 0 it returns to 0, when the browser keeps
\* running the requested callbacks, whatever is submitted meanwhile.
C9_FadeCompletes == (fadeCnt # 0) ~> (fadeCnt = 0)

C9_Witness ==
    /\ fadeCnt = 0 /\ last.op = "tick" /\ last.k = steps /\ ~last.threw
    /\ pending >= 1

\* C10 as claimed: a submission made with fadeCnt # 0 leaves
\* prevCanvasData alone and does not leave fadeCnt at 0.
C10_MidFadeNoReset ==
    [][(last'.op = "submit" /\ fadeCnt # 0)
          => (prevCanvasData' = prevCanvasData /\ fadeCnt' # 0)]_vars

\* C10, amended: a submission made with fadeCnt # 0 leaves prevCanvasData
\* alone and performs one blend step: fadeCnt goes from k to k + 1, and to 0
\* only from steps, where the step completes the cycle.
C10_MidFadeAdvances ==
    [][(last'.op = "submit" /\ fadeCnt # 0)
          => /\ prevCanvasData' = prevCanvasData
             /\ fadeCnt' = IF fadeCnt = steps THEN 0 ELSE fadeCnt + 1]_vars

C10_Witness ==
    /\ last.op = "submit" /\ last.k = steps /\ fadeCnt = 0
    /\ IsFrame(prevCanvasData)

\* C11: whenever a call of tweenCanvasData or updateCanvasData ends in an
\* exception, data is after the call exactly what it was before it.
C11_ErrorLeavesBuffer ==
    [][last'.threw => data' = data]_vars

\* a callback threw after blend steps had filled data
C11_Witness ==
    /\ last.op = "tick" /\ last.threw
    /\ writer = "tween" /\ data[4] = 255

\* C12 as claimed: tweenCanvasData called without a buffer while
\* newCanvasData is still null ends in an error at once and leaves
\* prevCanvasData, newCanvasData and fadeCnt as they were.
C12_NoFrameCallRejected ==
    [][(last'.op \in {"call", "tick"} /\ newCanvasData = Null)
          => /\ last'.threw
             /\ prevCanvasData' = prevCanvasData
             /\ newCanvasData' = newCanvasData
             /\ fadeCnt' = fadeCnt]_vars

\* C13 as claimed: a blend step that finds prevCanvasData and
\* newCanvasData of different lengths ends in an error and stores nothing.
C13_MismatchRejected ==
    [][(/\ last'.op \in TweenOps
        /\ IsFrame(prevCanvasData') /\ IsFrame(newCanvasData')
        /\ Len(prevCanvasData'.bytes) # Len(newCanvasData'.bytes))
          => (last'.threw /\ data' = data)]_vars

\* C14 as claimed: updateCanvasData of a buffer of odd length ends in an
\* error and stores nothing.
C14_OddLengthRejected ==
    [][(/\ last'.op = "update" /\ IsFrame(last'.depth)
        /\ Len(last'.depth.bytes) % 2 = 1)
          => (last'.threw /\ data' = data)]_vars

\* C15 as claimed: once updateCanvasData or a blend step of
\* tweenCanvasData has stored into data, every pixel of data has its
\* third byte equal to its second and its fourth byte 255.
C15_PixelFormat ==
    (writer # "none") =>
        \A px \in 0..(BufPixels - 1) :
            PixelOf(px)[3] = PixelOf(px)[2] /\ PixelOf(px)[4] = 255

\* the first tweenCanvasData of the object: the one its constructor makes
\* for config.initDepth, or the first a caller makes
FirstTween ==
    last.op \in {"ctor", "submit"} /\ last.k = 0 /\ promotions = 1

\* C16: after new meshFromKinect with config.initDepth = d, and after new
\* meshFromKinect without initDepth followed by tweenCanvasData(d), the
\* state is the same: prevCanvasData = newCanvasData = d, fadeCnt = 1, one
\* callback requested, data the encoding of d.
C16_InitDepthIsFirstSubmit ==
    FirstTween =>
        /\ prevCanvasData = last.depth
        /\ newCanvasData = last.depth
        /\ fadeCnt = 1
        /\ pending = 1
        /\ needsUpdate
        /\ data = UpdatePixels(BytesOf(last.depth), [j \in 1..DataLen |-> 0])

\* the constructor has run with initDepth the buffer of one sample
C16_Witness ==
    /\ last.op = "ctor" /\ last.depth = Frame(<<0, 4>>)
    /\ fadeCnt = 1 /\ data[2] = 255

\* C17 as claimed: new MeshFromDepth with the documented required
\* parameters (depthCanvas, scene, vertexShaderID, fragmentShaderID) throws
\* no Error.
C17_DocumentedConfigAccepted ==
    (depthMesh # NotBuilt /\ depthMesh.config = DocumentedConfig)
        => depthMesh.error = NoError

\* C18 as claimed: at most one callback that tweenCanvasData gave to
\* requestAnimationFrame is outstanding at any time.
C18_OneCallback == pending <= 1

\* C19 as claimed: once newCanvasData is a buffer, no submission and no
\* callback makes newCanvasData anything but a buffer, nor replaces a
\* buffer in prevCanvasData by a missing value.
C19_FramesStayFrames ==
    [][(last'.op \in {"submit", "tick"} /\ IsFrame(newCanvasData))
          => /\ IsFrame(newCanvasData')
             /\ IsFrame(prevCanvasData) => IsFrame(prevCanvasData')]_vars

\* C20 as claimed: in every state with fadeCnt # 0, prevCanvasData and
\* newCanvasData are buffers and at least one callback is outstanding.
C20_FadeHasFrames ==
    (fadeCnt # 0) =>
        /\ IsFrame(prevCanvasData)
        /\ IsFrame(newCanvasData)
        /\ pending >= 1

\* C21: updateCanvasData leaves prevCanvasData, newCanvasData, fadeCnt and
\* the outstanding callbacks as they were, also in the middle of a fade.
C21_UpdateKeepsBlendState ==
    [][last'.op = "update"
          => /\ prevCanvasData' = prevCanvasData
             /\ newCanvasData' = newCanvasData
             /\ fadeCnt' = fadeCnt
             /\ pending' = pending]_vars

\* updateCanvasData has stored a buffer in the middle of a fade
C21_Witness ==
    /\ last.op = "update" /\ ~last.threw /\ writer = "update"
    /\ fadeCnt # 0 /\ pending >= 1
    /\ prevCanvasData # newCanvasData

\* x <= 255, for x a multiple of 2^-ChanBits
AtMost255(x) ==
    LET top == (ChanBits \div LimbBits) + 1
        f   == x[top] + (LimbBase * x[top + 1])
    IN  f < 255 \/ (f = 255 /\ \A i \in 1..(top - 1) : x[i] = 0)

\* x rounded to the nearest integer, ties to even, with no clamp
RoundNearest(x) ==
    LET top   == (ChanBits \div LimbBits) + 1
        f     == x[top] + (LimbBase * x[top + 1])
        h     == x[top - 1]
        lower == \E i \in 1..(top - 2) : x[i] # 0
        above == h > LimbBase \div 2 \/ (h = LimbBase \div 2 /\ lower)
        below == h < LimbBase \div 2
    IN  IF above THEN f + 1
        ELSE IF below THEN f
        ELSE IF f % 2 = 0 THEN f ELSE f + 1

\* what line 462 computes from channels p and n at fadeCnt cnt, before the
\* store: whether it is at most 255, and the integer nearest to it
BlendFacts ==
    [cnt \in 0..steps |-> [p \in ChanVals |-> [n \in ChanVals |->
        LET v == blend(p, n, prevFade(cnt), newFade(cnt))
        IN  [atMost255 |-> AtMost255(v), nearest |-> RoundNearest(v)]]]]

\* an encoded channel (times 2^MapBits) is in [0, 255]
ChannelInRange(c) == c >= 0 /\ c <= 255 * Pow2(MapBits)

\* both channels of both encodings of pixel px are in [0, 255]
EncodedInRange(px) ==
    LET p == encodePrev(Total(prevCanvasData.bytes, 2 * px))
        n == encodeNew(Total(newCanvasData.bytes, 2 * px))
    IN  \A c \in 1..2 : ChannelInRange(p[c]) /\ ChannelInRange(n[c])

\* C22 as claimed: the encoded channels are in [0, 255] and every value a
\* blend step computes for a channel, at any fadeCnt in 0..steps, is in
\* [0, 255] before it is stored.
C22_BlendInRange ==
    Blended =>
        \A px \in 0..(BufPixels - 1) :
            px < NumIter(Len(prevCanvasData.bytes)) =>
                LET p == encodePrev(Total(prevCanvasData.bytes, 2 * px))
                    n == encodeNew(Total(newCanvasData.bytes, 2 * px))
                IN  /\ EncodedInRange(px)
                    /\ \A c \in 1..2 : BlendFacts[last.k][p[c]][n[c]].atMost255

\* C22, amended: the encoded channels are in [0, 255]; the value a blend
\* step computes may exceed 255 by rounding error, but the integer nearest
\* to it is in 0..255 and is the byte stored, so the store neither wraps
\* nor changes the byte by clamping.
C22_StoreIsNearest ==
    /\ Blended =>
          \A px \in 0..(BufPixels - 1) :
              px < NumIter(Len(prevCanvasData.bytes)) =>
                  LET p == encodePrev(Total(prevCanvasData.bytes, 2 * px))
                      n == encodeNew(Total(newCanvasData.bytes, 2 * px))
                  IN  /\ EncodedInRange(px)
                      /\ \A c \in 1..2 :
                            LET r == BlendFacts[last.k][p[c]][n[c]].nearest
                            IN  r \in 0..255 /\ PixelOf(px)[c] = r
    /\ (last.op = "update" /\ ~last.threw) =>
          \A px \in 0..(BufPixels - 1) :
              px < NumIter(Len(last.depth.bytes)) =>
                  LET e == encodeUpdate(Total(last.depth.bytes, 2 * px))
                  IN  \A c \in 1..2 :
                        /\ ChannelInRange(e[c])
                        /\ PixelOf(px)[c] = RoundNearest(ChanOfMap(e[c]))

\* a blend step has computed more than 255 for a channel: 255 blended
\* with 255 at fadeCnt 2
C22_Witness ==
    /\ Blended /\ last.k = 2
    /\ prevCanvasData = Frame(<<0, 0, 0, 8>>)
    /\ newCanvasData = Frame(<<0, 0, 0, 8>>)
    /\ ~BlendFacts[2][255 * Pow2(MapBits)][255 * Pow2(MapBits)].atMost255
    /\ PixelOf(0)[2] = 255

\* C23: loaded implies that both shaders are defined and the mesh has been
\* added to the scene; the mesh is added at most once.
C23_LoadedOnce ==
    /\ mesh.loaded => (mesh.vertexShader /\ mesh.fragmentShader /\ mesh.added >= 1)
    /\ mesh.added <= 1

\* both shaders came from files, _createMesh polled in vain at least once
\* and then added the mesh
C23_Witness ==
    /\ mesh.loaded /\ mesh.added = 1
    /\ mesh.polled >= 1 /\ mesh.loading = {} /\ mesh.timers = 0

\* C24 as claimed: every offset of colors that _geometry writes is
\* smaller than the length of colors, (gridX+1)*(gridY+1)*3, and every
\* index it writes is smaller than the number of vertices.
C24_GeometryInBounds ==
    mesh.loaded =>
        /\ mesh.geometry.colorMax < mesh.geometry.colors
        /\ mesh.geometry.indexMax < mesh.geometry.vertexCount

====
